---- MODULE Spec2Model ----
(***************************************************************************)
(* pywarden: the Bitwarden CLI wrapper (pywarden/bitwarden/Bitwarden.py),  *)
(* the two authenticators and the backup command                           *)
(* (pywarden/app/bitwarden.py).                                            *)
(*                                                                         *)
(* Every run of the external `bw` executable is one step of the model; its *)
(* outcome (failure to spawn, exit code, standard output) is an input of   *)
(* the step.  The code between two runs belongs to the step of the run     *)
(* that precedes it.                                                       *)
(***************************************************************************)
EXTENDS Integers, Sequences, FiniteSets, TLC

\* ------------------------------------------------------------------ bounds
\* accounts in configuration['accounts']
NumAccounts == 2
\* longest organization list `bw list organizations` returns
MaxOrgs == 2
\* largest retry_count a direct caller of the login methods passes
MaxRetryCount == 3
\* the latest minute the clock reaches while a caller uses the client
MaxClock == 1

\* ------------------------------------------------------- program constants
\* retry_count=5, the default of loginWithPassword and loginWithApiKey
DefaultRetryCount == 5

\* OrganizationUserTypes
OWNER == 0
ADMIN == 1
USER == 2
MANAGER == 3
CUSTOM == 4

OrganizationUserTypes == {OWNER, ADMIN, USER, MANAGER, CUSTOM}

\* the formats exportPersonalVault / exportCollections accept
SupportedFormats == {"json", "encrypted_json", "csv"}

\* the formats a configuration or the --format option may name
Formats == SupportedFormats \cup {"xml"}

\* server_url of backup(): the default when the configuration names none
DefaultServerUrl == "https://vault.bitwarden.com"

\* the serverUrl values `bw status` reports
ServerUrls == {DefaultServerUrl, "https://vault.example.com"}

\* the status values `bw status` reports
VaultStates == {"unauthenticated", "locked", "unlocked"}

\* Python's None, for the values the model keeps as strings
None == "None"

\* an optional session id: <<>> is None, <<t>> is the id t
NoSession == <<>>
Some(t) == <<t>>

\* ------------------------------------------------------------ text helpers
\* Python: s[a:b] for 0 <= a, 0 <= b (0-based, b exclusive, clipped)
Slice(s, a, b) ==
    LET hi == IF b > Len(s) THEN Len(s) ELSE b
    IN  IF a >= hi THEN <<>> ELSE SubSeq(s, a + 1, hi)

\* Python: sub in s
Contains(s, sub) ==
    \E i \in 1..(Len(s) - Len(sub) + 1) : SubSeq(s, i, i + Len(sub) - 1) = sub

\* Python: s.index(c), 0-based; -1 stands for the ValueError it raises
IndexOf(s, c) ==
    IF \E i \in 1..Len(s) : s[i] = c
    THEN (CHOOSE i \in 1..Len(s) : s[i] = c /\ \A j \in 1..(i - 1) : s[j] # c) - 1
    ELSE -1

\* Python: content.split('\n')
RECURSIVE SplitLines(_, _)
SplitLines(s, cur) ==
    IF s = <<>> THEN <<cur>>
    ELSE IF Head(s) = "\n" THEN <<cur>> \o SplitLines(Tail(s), <<>>)
    ELSE SplitLines(Tail(s), Append(cur, Head(s)))

EXPORT == <<"e", "x", "p", "o", "r", "t">>

\* the body of the loop of __extractSessionFromStdOut__ over `lines`:
\* the session id afterwards, and the exception that ended the loop
RECURSIVE ExtractLines(_, _)
ExtractLines(lines, sess) ==
    IF lines = <<>> THEN [session |-> sess, raised |-> None]
    ELSE LET line == Head(lines)
         IN  IF Contains(line, EXPORT)
             THEN LET idx == IndexOf(line, "=")
                  IN  IF idx < 0
                      THEN [session |-> sess, raised |-> "ValueError"]
                      ELSE LET session_raw == Slice(line, idx, Len(line))
                           IN  ExtractLines(Tail(lines),
                                   Some(Slice(session_raw, 2, Len(session_raw) - 1)))
             ELSE ExtractLines(Tail(lines), sess)

extractSessionFromStdOut(stdout, sess) == ExtractLines(SplitLines(stdout, <<>>), sess)

\* ------------------------------------------------- outputs of the executable
\* "You are logged in!" and the export line carrying the session id abc123
OutWithToken ==
    <<"o", "k", "\n",
      "$", " ", "e", "x", "p", "o", "r", "t", " ", "S", "=",
      "\"", "a", "b", "c", "1", "2", "3", "\"">>

\* exit 0 and no line that names the session
OutNoExport == <<"o", "k", "\n">>

\* a line with the word export and no '='
OutNoEquals == <<"n", "o", " ", "e", "x", "p", "o", "r", "t", "\n">>

StdoutSamples == {OutWithToken, OutNoExport, OutNoEquals}

\* how one run of the executable ends: Popen raising, or the exit code
ExitKinds == {"spawn_error", "nonzero", "zero"}

\* performCommandLineOperation for a command whose output is not read
ProcOutcomes == ExitKinds

\* performCommandLineOperation for login / unlock: the output is read on exit 0
TextOutcomes ==
    {[exit |-> e, stdout |-> <<>>] : e \in {"spawn_error", "nonzero"}}
    \cup {[exit |-> "zero", stdout |-> s] : s \in StdoutSamples}

\* the userEmail values `bw status` reports
Emails == {"a@example.com", "b@example.com"}

\* what the `status` property returns: None on a non-zero exit, else the
\* parsed JSON; "spawn_error" when the command cannot be run
StatusOutcomes ==
    {[exit |-> e, serverUrl |-> None, status |-> None, userEmail |-> None] :
         e \in {"spawn_error", "nonzero"}}
    \cup {[exit |-> "zero", serverUrl |-> u, status |-> s, userEmail |-> m] :
             u \in ServerUrls, s \in VaultStates, m \in Emails}

\* all sequences over S of length at most n
RECURSIVE SeqsUpTo(_, _)
SeqsUpTo(S, n) ==
    IF n = 0 THEN {<<>>}
    ELSE LET shorter == SeqsUpTo(S, n - 1)
         IN  shorter \cup {Append(s, x) : s \in shorter, x \in S}

\* the `type` fields of the organizations `bw list organizations` returns;
\* an organization's id is its position in the list
OrgLists == SeqsUpTo(OrganizationUserTypes, MaxOrgs) \cup {<<OWNER, USER, ADMIN>>}

\* what the `orgs` property gets: the exit kind and, on exit 0, the list
OrgsOutcomes ==
    {[exit |-> e, orgs |-> <<>>] : e \in {"spawn_error", "nonzero"}}
    \cup {[exit |-> "zero", orgs |-> l] : l \in OrgLists}

\* the values getpass returns for the backup password; None is Python's None
\* (no password was asked for)
EncryptPasswords == {"", "secret"}


\* ------------------------------------------------------------------- state
VARIABLES
    session,    \* Bitwarden._bw_session_id: NoSession or Some(id)
    environ,    \* the BW_* names set in os.environ
    call,       \* the Bitwarden method being run and its arguments
    cpc,        \* where that method stands: the next run of the executable
    loc,        \* its local variables
    ret,        \* how the last method ended: its return value or exception
    cmds,       \* the commands the method has handed to performCommandLineOperation
    sleeps,     \* the sleep() calls of the method, in tenths of a second
    entry,      \* the session id and the environment when the method began
    opc,        \* where backup() stands
    acctIdx,    \* the number of accounts backup() has started
    auth,       \* the authenticator of the current account
    runFormat,  \* the --format option of the run
    summary,    \* per account: what backup() did for it
    now,        \* datetime.now(): the minutes since the caller made its call
    arg,        \* the arguments of a function called on its own
    res         \* what that function returned

clientVars == <<session, environ, call, cpc, loc, ret, cmds, sleeps, entry>>
orchVars == <<opc, acctIdx, auth, runFormat, summary>>
auxVars == <<now, arg, res>>
vars == <<session, environ, call, cpc, loc, ret, cmds, sleeps, entry,
          opc, acctIdx, auth, runFormat, summary, now, arg, res>>

NoCall == [op |-> "none", retry_count |-> 0, format |-> "", encrypt_password |-> None]
NoLocals == [status |-> "unset", number_retries |-> 0, ret_value |-> FALSE,
             code |-> "unset", orgs |-> <<>>, idx |-> 0,
             userEmail |-> None, timeStr |-> -1, orgsCode |-> "unset"]
NoEntry == [session |-> NoSession, environ |-> {}]
NoRet == [kind |-> "none", val |-> ""]
NoArg == [acct_config |-> None, stdout |-> <<>>, sess |-> NoSession]
NoResult == [fn |-> "none", val |-> None]

Bool(b) == IF b THEN "True" ELSE "False"

\* the --output argument of an export a caller makes itself
GivenPath == [email |-> None, org |-> -1, timeStr |-> -1, ext |-> None]

\* no --output argument
NoPath == [email |-> None, org |-> -1, timeStr |-> -1, ext |-> ""]

\* a command line: the sub-command and the arguments the claims speak of
Cmd(name) == [name |-> name, session |-> NoSession, org |-> -1,
              format |-> "", password |-> None, path |-> NoPath]

StatusCmd == [Cmd("status") EXCEPT !.session = session]
SessionCmd(name) == [Cmd(name) EXCEPT !.session = session]

\* Python truthiness of encrypt_password: the --password argument of export,
\* None when the argument is left out
passwordArg(pw) == IF pw # None /\ pw # "" THEN pw ELSE None

\* "%s-%s.%s" % (status['userEmail'], timeStr, format) for the personal vault
\* (org = 0), "%s-%s-%s.%s" with org.name for an organization: the parts the
\* file name is made of; an organization's name, like its id, is its position
filename(userEmail, org, timeStr, format) ==
    [email |-> userEmail, org |-> org, timeStr |-> timeStr, ext |-> format]

\* mutant: the file name carries the minute at which the export is run
fileTime_current(timeStr, clock) == clock

\* the timestamp of a file name: timeStr, taken once before the first export
fileTime(timeStr, clock) == timeStr

ExportCmd(org) ==
    [name |-> "export", session |-> session, org |-> org,
     format |-> call.format, password |-> passwordArg(call.encrypt_password),
     path |-> IF call.op = "exportAll"
              THEN filename(loc.userEmail, org, fileTime(loc.timeStr, now), call.format)
              ELSE GivenPath]

\* the `status` property: the parsed 'status' field, None when the command fails
statusValue(o) == IF o.exit = "zero" THEN o.status ELSE None

\* mutant: a locked vault passes the precondition too
isUnauthenticated_orLocked(st) == st \in {"unauthenticated", "locked"}

\* mutant: the precondition is not checked
isUnauthenticated_always(st) == TRUE

\* the precondition of both login methods and of the serverUrl setter
isUnauthenticated(st) == st = "unauthenticated"

\* mutant: the loop runs once more
retryAgain_offByOne(number_retries, retry_count) == number_retries <= retry_count + 1

\* while(number_retries <= retry_count)
retryAgain(number_retries, retry_count) == number_retries <= retry_count

\* mutant: the exit code of the export is not looked at
exportSucceeded_always(code) == TRUE

\* `if(code == 0): return True`, else False, of the two export methods
exportSucceeded(code) == code = "zero"

\* sleep(0.5 * number_retries), in tenths of a second
retryDelay(number_retries) == 5 * number_retries

\* mutant: managers are exported too
isExported_withManager(type) == type \in {OWNER, ADMIN, MANAGER}

\* the organizations exportAll exports
isExported(type) == type \in {OWNER, ADMIN}

\* mutant: the session id is not looked at
hasSession_always(s) == TRUE

\* `if(self._bw_session_id == None)` of sync, the list properties and the
\* export methods: a session id is held
hasSession(s) == s # NoSession

\* the method ends: with a value, or with an exception
Return(v) == cpc' = "idle" /\ ret' = [kind |-> "return", val |-> v]
Raise(e) == cpc' = "idle" /\ ret' = [kind |-> "raise", val |-> e]
Goto(l) == cpc' = l /\ ret' = ret

\* a caller starts method `op`; __init__ starts on a new object, which holds
\* no session id
Begin(op, rc, fmt, pw) ==
    /\ call' = [op |-> op, retry_count |-> rc, format |-> fmt, encrypt_password |-> pw]
    /\ session' = IF op = "init" THEN NoSession ELSE session
    /\ environ' = environ
    /\ entry' = [session |-> session', environ |-> environ]
    /\ cpc' = op
    /\ loc' = [NoLocals EXCEPT !.idx = IF op = "exportCollections" THEN 1 ELSE 0]
    /\ ret' = NoRet
    /\ cmds' = <<>>
    /\ sleeps' = <<>>

\* --------------------------------------------------------------- Bitwarden
\* __init__: status = self.status; the setter runs when the server differs
init_status ==
    /\ cpc = "init"
    /\ \E o \in StatusOutcomes :
        /\ cmds' = Append(cmds, StatusCmd)
        /\ loc' = [loc EXCEPT !.status = statusValue(o)]
        /\ IF o.exit = "spawn_error" THEN Raise("OSError")
           ELSE IF o.exit = "nonzero" THEN Raise("TypeError")
           ELSE IF o.serverUrl # DefaultServerUrl THEN Goto("serverUrl")
           ELSE Return(None)
    /\ UNCHANGED <<session, environ, call, sleeps, entry>>
    /\ UNCHANGED orchVars
    /\ UNCHANGED auxVars

\* serverUrl setter: status = self.status; InvalidState unless unauthenticated
serverUrl_status ==
    /\ cpc = "serverUrl"
    /\ \E o \in StatusOutcomes :
        /\ cmds' = Append(cmds, StatusCmd)
        /\ loc' = [loc EXCEPT !.status = statusValue(o)]
        /\ IF o.exit = "spawn_error" THEN Raise("OSError")
           ELSE IF o.exit = "nonzero" THEN Raise("TypeError")
           ELSE IF ~isUnauthenticated(o.status) THEN Raise("InvalidState")
           ELSE Goto("config")
    /\ UNCHANGED <<session, environ, call, sleeps, entry>>
    /\ UNCHANGED orchVars
    /\ UNCHANGED auxVars

\* serverUrl setter: bw config server <url>
serverUrl_config ==
    /\ cpc = "config"
    /\ \E o \in ProcOutcomes :
        /\ cmds' = Append(cmds, Cmd("config server"))
        /\ IF o = "spawn_error" THEN Raise("OSError") ELSE Return(None)
    /\ UNCHANGED <<session, environ, call, loc, sleeps, entry>>
    /\ UNCHANGED orchVars
    /\ UNCHANGED auxVars

\* loginWithPassword: the status check before the retry loop
loginWithPassword_status ==
    /\ cpc = "loginWithPassword"
    /\ \E o \in StatusOutcomes :
        /\ cmds' = Append(cmds, StatusCmd)
        /\ loc' = [loc EXCEPT !.status = statusValue(o), !.number_retries = 1]
        /\ IF o.exit = "spawn_error" THEN Raise("OSError")
           ELSE IF o.exit = "nonzero" THEN Raise("TypeError")
           ELSE IF ~isUnauthenticated(o.status) THEN Raise("InvalidState")
           ELSE IF retryAgain(1, call.retry_count) THEN Goto("login")
           ELSE Return(Bool(FALSE))
    /\ UNCHANGED <<session, environ, call, sleeps, entry>>
    /\ UNCHANGED orchVars
    /\ UNCHANGED auxVars

\* loginWithPassword: one pass of the retry loop, bw login <username> <password>
loginWithPassword_login ==
    /\ cpc = "login"
    /\ call.op = "loginWithPassword"
    /\ \E o \in TextOutcomes :
        /\ cmds' = Append(cmds, Cmd("login"))
        /\ IF o.exit = "spawn_error"
           THEN Raise("OSError") /\ UNCHANGED <<session, loc, sleeps>>
           ELSE IF o.exit = "zero"
           THEN LET x == extractSessionFromStdOut(o.stdout, session)
                IN  /\ session' = x.session
                    /\ UNCHANGED sleeps
                    /\ IF x.raised # None
                       THEN Raise(x.raised) /\ loc' = [loc EXCEPT !.code = "zero"]
                       ELSE Goto("sync")
                            /\ loc' = [loc EXCEPT !.code = "zero", !.ret_value = TRUE]
           ELSE /\ sleeps' = Append(sleeps, retryDelay(loc.number_retries))
                /\ loc' = [loc EXCEPT !.code = "nonzero", !.number_retries = @ + 1]
                /\ UNCHANGED session
                /\ IF retryAgain(loc.number_retries + 1, call.retry_count)
                   THEN Goto("login")
                   ELSE Return(Bool(loc.ret_value))
    /\ UNCHANGED <<environ, call, entry>>
    /\ UNCHANGED orchVars
    /\ UNCHANGED auxVars

\* sync: VaultNotUnlocked without a session id, else bw sync --session <id>;
\* loginWithPassword ignores the result and returns ret_value
sync_run ==
    /\ cpc = "sync"
    /\ IF ~hasSession(session)
       THEN Raise("VaultNotUnlocked") /\ UNCHANGED cmds
       ELSE \E o \in ProcOutcomes :
            /\ cmds' = Append(cmds, SessionCmd("sync"))
            /\ IF o = "spawn_error" THEN Raise("OSError")
               ELSE IF call.op = "loginWithPassword" THEN Return(Bool(loc.ret_value))
               ELSE Return(Bool(o = "zero"))
    /\ UNCHANGED <<session, environ, call, loc, sleeps, entry>>
    /\ UNCHANGED orchVars
    /\ UNCHANGED auxVars

\* loginWithApiKey: the status check, then BW_CLIENTID / BW_CLIENTSECRET are set
loginWithApiKey_status ==
    /\ cpc = "loginWithApiKey"
    /\ \E o \in StatusOutcomes :
        /\ cmds' = Append(cmds, StatusCmd)
        /\ loc' = [loc EXCEPT !.status = statusValue(o), !.number_retries = 1]
        /\ IF o.exit = "spawn_error" THEN Raise("OSError") /\ UNCHANGED environ
           ELSE IF o.exit = "nonzero" THEN Raise("TypeError") /\ UNCHANGED environ
           ELSE IF ~isUnauthenticated(o.status)
           THEN Raise("InvalidState") /\ UNCHANGED environ
           ELSE IF retryAgain(1, call.retry_count)
           THEN Goto("login") /\ environ' = environ \cup {"BW_CLIENTID", "BW_CLIENTSECRET"}
           ELSE Return(Bool(FALSE)) /\ environ' = environ \ {"BW_CLIENTID", "BW_CLIENTSECRET"}
    /\ UNCHANGED <<session, call, sleeps, entry>>
    /\ UNCHANGED orchVars
    /\ UNCHANGED auxVars

\* loginWithApiKey: one pass of the retry loop, bw login --apikey; the two
\* names are deleted after the loop
loginWithApiKey_login ==
    /\ cpc = "login"
    /\ call.op = "loginWithApiKey"
    /\ \E o \in ProcOutcomes :
        /\ cmds' = Append(cmds, Cmd("login --apikey"))
        /\ IF o = "spawn_error"
           THEN Raise("OSError") /\ UNCHANGED <<environ, loc, sleeps>>
           ELSE IF o = "zero"
           THEN /\ loc' = [loc EXCEPT !.code = "zero", !.ret_value = TRUE]
                /\ environ' = environ \ {"BW_CLIENTID", "BW_CLIENTSECRET"}
                /\ UNCHANGED sleeps
                /\ Return(Bool(TRUE))
           ELSE /\ sleeps' = Append(sleeps, retryDelay(loc.number_retries))
                /\ loc' = [loc EXCEPT !.code = "nonzero", !.number_retries = @ + 1]
                /\ IF retryAgain(loc.number_retries + 1, call.retry_count)
                   THEN Goto("login") /\ UNCHANGED environ
                   ELSE /\ environ' = environ \ {"BW_CLIENTID", "BW_CLIENTSECRET"}
                        /\ Return(Bool(loc.ret_value))
    /\ UNCHANGED <<session, call, entry>>
    /\ UNCHANGED orchVars
    /\ UNCHANGED auxVars

\* mutant: the session id is kept when the command fails
clearsSession_onSuccess(code) == code = "zero"

\* logout: `self._bw_session_id = None`, whatever the exit code
clearsSession(code) == TRUE

\* logout: bw logout, then the session id is dropped
logout_run ==
    /\ cpc = "logout"
    /\ \E o \in ProcOutcomes :
        /\ cmds' = Append(cmds, Cmd("logout"))
        /\ IF o = "spawn_error"
           THEN Raise("OSError") /\ UNCHANGED <<session, loc>>
           ELSE /\ Return(None)
                /\ loc' = [loc EXCEPT !.code = o]
                /\ session' = IF clearsSession(o) THEN NoSession ELSE session
    /\ UNCHANGED <<environ, call, sleeps, entry>>
    /\ UNCHANGED orchVars
    /\ UNCHANGED auxVars

\* lock: bw lock, the result is not read
lock_run ==
    /\ cpc = "lock"
    /\ \E o \in ProcOutcomes :
        /\ cmds' = Append(cmds, Cmd("lock"))
        /\ IF o = "spawn_error" THEN Raise("OSError") ELSE Return(None)
    /\ UNCHANGED <<session, environ, call, loc, sleeps, entry>>
    /\ UNCHANGED orchVars
    /\ UNCHANGED auxVars

\* mutant: an unlocked vault is unlocked again
isUnlocked_never(st) == FALSE

\* unlock: `if(status['status'] == r'unlocked'): return True`
isUnlocked(st) == st = "unlocked"

\* unlock: `if(status['status'] == r'unauthenticated'): raise`
requiresLogin(st) == st = "unauthenticated"

\* unlock: the status check, then BW_PASSWORD is set
unlock_status ==
    /\ cpc = "unlock"
    /\ \E o \in StatusOutcomes :
        /\ cmds' = Append(cmds, StatusCmd)
        /\ loc' = [loc EXCEPT !.status = statusValue(o)]
        /\ IF o.exit = "spawn_error" THEN Raise("OSError") /\ UNCHANGED environ
           ELSE IF o.exit = "nonzero" THEN Raise("TypeError") /\ UNCHANGED environ
           ELSE IF isUnlocked(o.status) THEN Return(Bool(TRUE)) /\ UNCHANGED environ
           ELSE IF requiresLogin(o.status)
           THEN Raise("InvalidState") /\ UNCHANGED environ
           ELSE Goto("unlock_run") /\ environ' = environ \cup {"BW_PASSWORD"}
    /\ UNCHANGED <<session, call, sleeps, entry>>
    /\ UNCHANGED orchVars
    /\ UNCHANGED auxVars

\* unlock: bw unlock --passwordenv BW_PASSWORD, then BW_PASSWORD is deleted
unlock_run ==
    /\ cpc = "unlock_run"
    /\ \E o \in TextOutcomes :
        /\ cmds' = Append(cmds, Cmd("unlock"))
        /\ IF o.exit = "spawn_error"
           THEN Raise("OSError") /\ UNCHANGED <<session, environ, loc>>
           ELSE /\ environ' = environ \ {"BW_PASSWORD"}
                /\ IF o.exit = "zero"
                   THEN LET x == extractSessionFromStdOut(o.stdout, session)
                        IN  /\ session' = x.session
                            /\ IF x.raised # None
                               THEN Raise(x.raised)
                                    /\ loc' = [loc EXCEPT !.code = "zero"]
                               ELSE /\ loc' = [loc EXCEPT !.code = "zero",
                                                          !.ret_value = TRUE]
                                    /\ Return(Bool(TRUE))
                   ELSE /\ Return(Bool(FALSE))
                        /\ loc' = [loc EXCEPT !.code = "nonzero"]
                        /\ UNCHANGED session
    /\ UNCHANGED <<call, sleeps, entry>>
    /\ UNCHANGED orchVars
    /\ UNCHANGED auxVars

\* the argument checks of exportPersonalVault and exportCollections: the
\* exception they raise, None when the arguments pass
exportArgumentError(format, encrypt_password) ==
    IF format \notin SupportedFormats THEN "InvalidArguments"
    ELSE IF format = "encrypted_json" /\ encrypt_password = None
    THEN "NoEncryptionPassword"
    ELSE None

\* the loop of exportAll over self.orgs: the position of the next organization
\* after `from` that is exported, 0 when the loop ends
nextExported(orgs, from) ==
    LET later == {i \in (from + 1)..Len(orgs) : isExported(orgs[i])}
    IN  IF later = {} THEN 0
        ELSE CHOOSE i \in later : \A j \in later : i <= j

\* what exportAll finds at dir_path: a directory; nothing, where os.makedirs
\* creates the directory; nothing, where os.makedirs raises (a parent is a
\* regular file, or may not be written); something that is not a directory.
\* The file system is the caller's: the state holds neither the directory
\* that is created nor the files the executable writes.
DirPaths == {"directory", "missing", "uncreatable", "file"}

\* `if(not os.path.exists(dir_path))`: os.makedirs(dir_path) is called
makesDir(dir_path) == dir_path \in {"missing", "uncreatable"}

\* os.makedirs(dir_path) raises an OSError
makedirsFails(dir_path) == dir_path = "uncreatable"

\* os.path.isdir(dir_path) once os.makedirs has returned
isDir(dir_path) == dir_path \in {"directory", "missing"}

\* exportAll up to the personal export: the session check, the creation of a
\* missing directory, the directory check, status = self.status, timeStr and
\* the file name built from them
exportAll_status ==
    /\ cpc = "exportAll"
    /\ IF ~hasSession(session)
       THEN Return(Bool(FALSE)) /\ UNCHANGED <<cmds, loc>>
       ELSE \E dir_path \in DirPaths :
            IF makesDir(dir_path) /\ makedirsFails(dir_path)
            THEN Raise("OSError") /\ UNCHANGED <<cmds, loc>>
            ELSE IF ~isDir(dir_path)
            THEN Return(Bool(FALSE)) /\ UNCHANGED <<cmds, loc>>
            ELSE \E o \in StatusOutcomes :
                 /\ cmds' = Append(cmds, StatusCmd)
                 /\ IF o.exit = "spawn_error" THEN Raise("OSError") /\ UNCHANGED loc
                    ELSE IF o.exit = "nonzero" THEN Raise("TypeError") /\ UNCHANGED loc
                    ELSE /\ Goto("exportPersonalVault")
                         /\ loc' = [loc EXCEPT !.userEmail = o.userEmail,
                                               !.timeStr = now]
    /\ UNCHANGED <<session, environ, call, sleeps, entry>>
    /\ UNCHANGED orchVars
    /\ UNCHANGED auxVars

\* exportPersonalVault: bw export; exportAll stops on False, else reads self.orgs
exportPersonalVault_run ==
    /\ cpc = "exportPersonalVault"
    /\ IF ~hasSession(session)
       THEN Return(Bool(FALSE)) /\ UNCHANGED <<cmds, loc>>
       ELSE IF exportArgumentError(call.format, call.encrypt_password) # None
       THEN Raise(exportArgumentError(call.format, call.encrypt_password))
            /\ UNCHANGED <<cmds, loc>>
       ELSE \E o \in ProcOutcomes :
            /\ cmds' = Append(cmds, ExportCmd(0))
            /\ IF o = "spawn_error" THEN Raise("OSError") /\ UNCHANGED loc
               ELSE /\ loc' = [loc EXCEPT !.code = o]
                    /\ IF call.op = "exportAll" /\ exportSucceeded(o)
                       THEN Goto("orgs")
                       ELSE Return(Bool(exportSucceeded(o)))
    /\ UNCHANGED <<session, environ, call, sleeps, entry>>
    /\ UNCHANGED orchVars
    /\ UNCHANGED auxVars

\* the orgs property: bw list organizations; exportAll then walks the list to
\* the first organization it exports
orgs_run ==
    /\ cpc = "orgs"
    /\ IF ~hasSession(session)
       THEN /\ UNCHANGED <<cmds, loc>>
            /\ IF call.op = "exportAll" THEN Raise("TypeError") ELSE Return(None)
       ELSE \E o \in OrgsOutcomes :
            /\ cmds' = Append(cmds, SessionCmd("list organizations"))
            /\ IF o.exit = "spawn_error"
               THEN Raise("OSError") /\ UNCHANGED loc
               ELSE LET first == nextExported(o.orgs, 0)
                    IN  IF call.op # "exportAll"
                        THEN Return("list")
                             /\ loc' = [loc EXCEPT !.orgs = o.orgs, !.orgsCode = o.exit]
                        ELSE /\ loc' = [loc EXCEPT !.orgs = o.orgs, !.idx = first,
                                                   !.orgsCode = o.exit]
                             /\ IF first = 0 THEN Return(Bool(TRUE))
                                ELSE Goto("exportCollections")
    /\ UNCHANGED <<session, environ, call, sleeps, entry>>
    /\ UNCHANGED orchVars
    /\ UNCHANGED auxVars

\* the items property: bw list items; the list read is dropped, [] is returned
items_run ==
    /\ cpc = "items"
    /\ IF ~hasSession(session)
       THEN Return(None) /\ UNCHANGED cmds
       ELSE \E o \in ProcOutcomes :
            /\ cmds' = Append(cmds, SessionCmd("list items"))
            /\ IF o = "spawn_error" THEN Raise("OSError") ELSE Return("list")
    /\ UNCHANGED <<session, environ, call, loc, sleeps, entry>>
    /\ UNCHANGED orchVars
    /\ UNCHANGED auxVars

\* the collections property: bw list collections
collections_run ==
    /\ cpc = "collections"
    /\ IF ~hasSession(session)
       THEN Return(None) /\ UNCHANGED cmds
       ELSE \E o \in ProcOutcomes :
            /\ cmds' = Append(cmds, SessionCmd("list collections"))
            /\ IF o = "spawn_error" THEN Raise("OSError") ELSE Return("list")
    /\ UNCHANGED <<session, environ, call, loc, sleeps, entry>>
    /\ UNCHANGED orchVars
    /\ UNCHANGED auxVars

\* exportCollections for the organization loc.idx: bw export --organizationid;
\* exportAll stops on False, else goes on to the next organization it exports
exportCollections_run ==
    /\ cpc = "exportCollections"
    /\ IF ~hasSession(session)
       THEN Return(Bool(FALSE)) /\ UNCHANGED <<cmds, loc>>
       ELSE IF exportArgumentError(call.format, call.encrypt_password) # None
       THEN Raise(exportArgumentError(call.format, call.encrypt_password))
            /\ UNCHANGED <<cmds, loc>>
       ELSE \E o \in ProcOutcomes :
            /\ cmds' = Append(cmds, ExportCmd(loc.idx))
            /\ IF o = "spawn_error" THEN Raise("OSError") /\ UNCHANGED loc
               ELSE IF ~exportSucceeded(o)
               THEN Return(Bool(FALSE)) /\ loc' = [loc EXCEPT !.code = o]
               ELSE IF call.op # "exportAll"
               THEN Return(Bool(TRUE)) /\ loc' = [loc EXCEPT !.code = o]
               ELSE LET next == nextExported(loc.orgs, loc.idx)
                    IN  IF next = 0
                        THEN Return(Bool(TRUE)) /\ loc' = [loc EXCEPT !.code = o]
                        ELSE Goto("exportCollections")
                             /\ loc' = [loc EXCEPT !.code = o, !.idx = next]
    /\ UNCHANGED <<session, environ, call, sleeps, entry>>
    /\ UNCHANGED orchVars
    /\ UNCHANGED auxVars

\* ------------------------------------------------- authenticators, backup()
\* the shapes of an account's configuration: None is an absent key
CredentialShapes ==
    [client_id : {None, "", "id"}, client_secret : {None, "", "secret"}]

\* getAuthenticator: the class it instantiates
getAuthenticator(acct_config) ==
    IF acct_config.client_id # None /\ acct_config.client_secret # None
    THEN "BitwardenApiKeyAuthenticator"
    ELSE "BitwardenPasswordAuthenticator"

\* backup(): `except AuthenticationFailedException`
isCaught(exc) == exc = "AuthenticationFailed"

\* what getpass gives: a secret, or an exception (`except Exception`)
PromptOutcomes == {"error"} \cup EncryptPasswords

NoSummary == [outcome |-> "pending", unlock |-> "none",
              exported |-> FALSE, loggedOut |-> FALSE, loggedOutFirst |-> FALSE]

Accounts == 1..NumAccounts

\* the number of commands named `name` the current method has run
CountCmd(name) == Cardinality({i \in 1..Len(cmds) : cmds[i].name = name})

\* an export command is among the commands of the method that just ended
HasExport == \E i \in 1..Len(cmds) : cmds[i].name = "export"

\* the frame of the method that ended is dropped
DropFrame ==
    /\ call' = NoCall
    /\ loc' = NoLocals
    /\ cmds' = <<>>
    /\ sleeps' = <<>>
    /\ entry' = NoEntry
    /\ UNCHANGED <<session, environ, cpc>>

\* the loop body is left for account acctIdx: by `continue` or the end of the
\* body (next = "loop"), or by an exception nothing catches (next = "aborted")
Leave(next, outcome, unlock) ==
    /\ opc' = next
    /\ summary' = [summary EXCEPT ![acctIdx].outcome = outcome,
                                  ![acctIdx].unlock = unlock,
                                  ![acctIdx].exported = @ \/ HasExport]
    /\ DropFrame
    /\ ret' = IF next = "aborted" THEN ret ELSE NoRet
    /\ UNCHANGED <<acctIdx, auth, runFormat>>

Continue(outcome) == Leave("loop", outcome, summary[acctIdx].unlock)

Uncaught == Leave("aborted", "uncaught", summary[acctIdx].unlock)

\* for acct in configuration['accounts']: getAuthenticator builds the
\* authenticator and its Bitwarden object
backup_start ==
    /\ opc = "loop"
    /\ acctIdx < NumAccounts
    /\ \E acct_config \in CredentialShapes : auth' = getAuthenticator(acct_config)
    /\ acctIdx' = acctIdx + 1
    /\ summary' = [summary EXCEPT ![acctIdx + 1].outcome = "running"]
    /\ opc' = "init"
    /\ Begin("init", 0, "", None)
    /\ UNCHANGED runFormat
    /\ UNCHANGED auxVars

\* mutant: the client is queried again instead of being logged out
DefensiveCall_init == "init"

\* the first call of the try block: auth.bw.logout()
DefensiveCall == "logout"

\* the password prompt, then auth.bw.logout()
backup_prompt ==
    /\ opc = "init"
    /\ cpc = "idle"
    /\ IF ret.kind = "raise"
       THEN Uncaught
       ELSE \E passwordForLogin \in {"error", "secret"} :
            IF passwordForLogin = "error"
            THEN Continue("prompt_failed")
            ELSE /\ opc' = "logout"
                 /\ Begin(DefensiveCall, 0, "", None)
                 /\ UNCHANGED <<acctIdx, auth, runFormat, summary>>
    /\ UNCHANGED auxVars

\* auth.unlockVault(passwordForLogin): the first call either class makes
backup_unlockVault ==
    /\ opc = "logout"
    /\ cpc = "idle"
    /\ IF ret.kind = "raise"
       THEN IF isCaught(ret.val) THEN Continue("auth_failed") ELSE Uncaught
       ELSE /\ IF auth = "BitwardenPasswordAuthenticator"
               THEN opc' = "unlockVault"
                    /\ Begin("loginWithPassword", DefaultRetryCount, "", None)
               ELSE opc' = "apiLogin"
                    /\ Begin("loginWithApiKey", DefaultRetryCount, "", None)
            /\ summary' = [summary EXCEPT ![acctIdx].loggedOutFirst =
                               call.op = "logout" /\ CountCmd("logout") = 1]
            /\ UNCHANGED <<acctIdx, auth, runFormat>>
    /\ UNCHANGED auxVars

\* mutant: the result of loginWithApiKey is not looked at
loginRejected_never(status) == FALSE

\* BitwardenApiKeyAuthenticator.unlockVault: `if not status`
loginRejected(status) == status = Bool(FALSE)

\* BitwardenApiKeyAuthenticator.unlockVault after loginWithApiKey returned
apiKey_unlockVault ==
    /\ opc = "apiLogin"
    /\ cpc = "idle"
    /\ opc' = "unlockVault"
    /\ IF ret.kind = "raise"
       THEN UNCHANGED clientVars
       ELSE IF loginRejected(ret.val)
       THEN /\ ret' = [kind |-> "raise", val |-> "AuthenticationFailed"]
            /\ UNCHANGED <<session, environ, call, cpc, loc, cmds, sleeps, entry>>
       ELSE Begin("unlock", 0, "", None)
    /\ UNCHANGED <<acctIdx, auth, runFormat, summary>>
    /\ UNCHANGED auxVars

\* exp_format: the account's 'format' key when present, else the --format option
effectiveFormat(acctFormat, format) == IF acctFormat # None THEN acctFormat ELSE format

\* after unlockVault: the except clause, the export format, the backup
\* password prompt, then auth.bw.exportAll(dir, exp_format, encrypt_password)
backup_export ==
    /\ opc = "unlockVault"
    /\ cpc = "idle"
    /\ IF ret.kind = "raise"
       THEN IF isCaught(ret.val)
            THEN Leave("loop", "auth_failed", "raised")
            ELSE Leave("aborted", "uncaught", "raised")
       ELSE \E acctFormat \in Formats \cup {None}, prompt \in PromptOutcomes :
            LET exp_format == effectiveFormat(acctFormat, runFormat)
                unlockedSummary == [summary EXCEPT ![acctIdx].unlock = ret.val]
            IN  IF exp_format = "encrypted_json" /\ prompt = "error"
                THEN Leave("loop", "prompt_failed", ret.val)
                ELSE /\ opc' = "exportAll"
                     /\ summary' = unlockedSummary
                     /\ Begin("exportAll", 0, exp_format,
                              IF exp_format = "encrypted_json" THEN prompt ELSE None)
                     /\ UNCHANGED <<acctIdx, auth, runFormat>>
    /\ UNCHANGED auxVars

\* after exportAll: `if(status == False): continue`, else auth.bw.logout()
backup_finish ==
    /\ opc = "exportAll"
    /\ cpc = "idle"
    /\ IF ret.kind = "raise"
       THEN Uncaught
       ELSE IF ret.val = Bool(FALSE)
       THEN Continue("export_failed")
       ELSE /\ opc' = "logout2"
            /\ summary' = [summary EXCEPT ![acctIdx].exported = @ \/ HasExport,
                                          ![acctIdx].loggedOut = TRUE]
            /\ Begin("logout", 0, "", None)
            /\ UNCHANGED <<acctIdx, auth, runFormat>>
    /\ UNCHANGED auxVars

\* the end of the loop body after the last logout
backup_next ==
    /\ opc = "logout2"
    /\ cpc = "idle"
    /\ IF ret.kind = "raise" THEN Uncaught ELSE Continue("ok")
    /\ UNCHANGED auxVars

\* the loop is over: backup() returns
backup_done ==
    /\ opc = "loop"
    /\ acctIdx = NumAccounts
    /\ opc' = "done"
    /\ UNCHANGED <<acctIdx, auth, runFormat, summary>>
    /\ UNCHANGED clientVars
    /\ UNCHANGED auxVars

\* every run of the executable a Bitwarden method makes
ClientStep ==
    \/ init_status
    \/ serverUrl_status
    \/ serverUrl_config
    \/ loginWithPassword_status
    \/ loginWithPassword_login
    \/ sync_run
    \/ loginWithApiKey_status
    \/ loginWithApiKey_login
    \/ logout_run
    \/ lock_run
    \/ unlock_status
    \/ unlock_run
    \/ exportAll_status
    \/ exportPersonalVault_run
    \/ orgs_run
    \/ items_run
    \/ collections_run
    \/ exportCollections_run

\* ------------------------------------------------- the backup command: Spec
Init ==
    /\ session = NoSession
    /\ environ = {}
    /\ call = NoCall
    /\ cpc = "idle"
    /\ loc = NoLocals
    /\ ret = NoRet
    /\ cmds = <<>>
    /\ sleeps = <<>>
    /\ entry = NoEntry
    /\ opc = "loop"
    /\ acctIdx = 0
    /\ auth = "none"
    /\ runFormat \in Formats
    /\ summary = [a \in Accounts |-> NoSummary]
    /\ now = 0
    /\ arg = NoArg
    /\ res = NoResult

Next ==
    \/ backup_start
    \/ backup_prompt
    \/ backup_unlockVault
    \/ apiKey_unlockVault
    \/ backup_export
    \/ backup_finish
    \/ backup_next
    \/ backup_done
    \/ init_status
    \/ serverUrl_status
    \/ serverUrl_config
    \/ loginWithPassword_status
    \/ loginWithPassword_login
    \/ sync_run
    \/ loginWithApiKey_status
    \/ loginWithApiKey_login
    \/ logout_run
    \/ unlock_status
    \/ unlock_run
    \/ exportAll_status
    \/ exportPersonalVault_run
    \/ orgs_run
    \/ exportCollections_run

Spec == Init /\ [][Next]_vars

\* ------------------------------ a caller of one Bitwarden object: ClientSpec
RetryCounts == 0..MaxRetryCount

ExportOps == {"exportAll", "exportPersonalVault", "exportCollections"}
LoginOps == {"loginWithPassword", "loginWithApiKey"}
PlainOps == {"init", "serverUrl", "logout", "lock", "unlock", "sync", "orgs",
             "items", "collections"}

\* the caller makes its next call once the last one has ended
invoke ==
    /\ opc = "client"
    /\ cpc = "idle"
    /\ \/ \E op \in PlainOps : Begin(op, 0, "", None)
       \/ \E op \in LoginOps, rc \in RetryCounts : Begin(op, rc, "", None)
       \/ \E op \in ExportOps, fmt \in Formats, pw \in {None} \cup EncryptPasswords :
            Begin(op, 0, fmt, pw)
    /\ now' = 0
    /\ UNCHANGED <<arg, res>>
    /\ UNCHANGED orchVars

ClientInit ==
    /\ session = NoSession
    /\ environ = {}
    /\ call = NoCall
    /\ cpc = "idle"
    /\ loc = NoLocals
    /\ ret = NoRet
    /\ cmds = <<>>
    /\ sleeps = <<>>
    /\ entry = NoEntry
    /\ opc = "client"
    /\ acctIdx = 0
    /\ auth = "none"
    /\ runFormat = "json"
    /\ summary = [a \in Accounts |-> NoSummary]
    /\ now = 0
    /\ arg = NoArg
    /\ res = NoResult

\* a minute passes while exportAll, the one method that reads the clock, runs
\* a command: before `bw status` returns, or between the end of the personal
\* export and the start of an organization's export
tick ==
    /\ opc = "client"
    /\ call.op = "exportAll"
    /\ cpc \in {"exportAll", "orgs", "exportCollections"}
    /\ now < MaxClock
    /\ now' = now + 1
    /\ UNCHANGED <<arg, res>>
    /\ UNCHANGED clientVars
    /\ UNCHANGED orchVars

ClientNext == invoke \/ ClientStep \/ tick

ClientSpec == ClientInit /\ [][ClientNext]_vars

\* ---------------------------- functions called on their own: FunctionSpec
\* two lines with the word export: the session ids ab and then cd
OutTwoExports ==
    <<"e", "x", "p", "o", "r", "t", " ", "S", "=", "\"", "a", "b", "\"", "\n",
      "e", "x", "p", "o", "r", "t", " ", "S", "=", "\"", "c", "d", "\"">>

\* an export line with the id ab, then a line without the word
OutExportThenText ==
    <<"e", "x", "p", "o", "r", "t", " ", "S", "=", "\"", "a", "b", "\"", "\n",
      "o", "k">>

\* the outputs __extractSessionFromStdOut__ is given
ExtractionInputs == StdoutSamples \cup {OutTwoExports, OutExportThenText, <<>>}

\* _bw_session_id before the extraction: None, or an id from an earlier unlock
PriorSessions == {NoSession, Some(<<"o", "l", "d">>)}

FunctionArgs ==
    [acct_config : CredentialShapes, stdout : ExtractionInputs, sess : PriorSessions]

\* getAuthenticator(acct_config, server_url, root_ca_path): the class is
\* chosen and instantiated, and its constructor builds the Bitwarden object,
\* whose __init__ queries the status
call_getAuthenticator ==
    /\ opc = "function"
    /\ cpc = "idle"
    /\ call.op = "none"
    /\ auth' = getAuthenticator(arg.acct_config)
    /\ Begin("init", 0, "", None)
    /\ res' = NoResult
    /\ UNCHANGED <<opc, acctIdx, runFormat, summary>>
    /\ UNCHANGED <<now, arg>>

\* getAuthenticator ends as the construction ends: it returns the
\* authenticator, or the exception of Bitwarden.__init__ leaves it
return_getAuthenticator ==
    /\ opc = "function"
    /\ cpc = "idle"
    /\ call.op = "init"
    /\ res' = [fn |-> "getAuthenticator",
               val |-> IF ret.kind = "raise" THEN None ELSE auth]
    /\ call' = NoCall
    /\ UNCHANGED <<session, environ, cpc, loc, ret, cmds, sleeps, entry>>
    /\ UNCHANGED <<now, arg>>
    /\ UNCHANGED orchVars

\* self.__extractSessionFromStdOut__(stdout) on an object holding arg.sess
call_extractSessionFromStdOut ==
    /\ opc = "function"
    /\ cpc = "idle"
    /\ call.op = "none"
    /\ res' = [fn |-> "extractSessionFromStdOut",
               val |-> extractSessionFromStdOut(arg.stdout, arg.sess)]
    /\ loc' = NoLocals
    /\ ret' = NoRet
    /\ cmds' = <<>>
    /\ UNCHANGED <<session, environ, call, cpc, sleeps, entry>>
    /\ UNCHANGED <<now, arg>>
    /\ UNCHANGED orchVars

FunctionInit ==
    /\ session = NoSession
    /\ environ = {}
    /\ call = NoCall
    /\ cpc = "idle"
    /\ loc = NoLocals
    /\ ret = NoRet
    /\ cmds = <<>>
    /\ sleeps = <<>>
    /\ entry = NoEntry
    /\ opc = "function"
    /\ acctIdx = 0
    /\ auth = "none"
    /\ runFormat = "json"
    /\ summary = [a \in Accounts |-> NoSummary]
    /\ now = 0
    /\ arg \in FunctionArgs
    /\ res = NoResult

FunctionNext ==
    \/ call_getAuthenticator
    \/ init_status
    \/ serverUrl_status
    \/ serverUrl_config
    \/ return_getAuthenticator
    \/ call_extractSessionFromStdOut

FunctionSpec == FunctionInit /\ [][FunctionNext]_vars

\* ------------------------------------------------------------------ claims
\* the login commands of the current method, of either kind
CountLogin == CountCmd("login") + CountCmd("login --apikey")

\* the targets of the export commands of the current method, in order:
\* 0 is the personal vault, i the i-th organization of the list
ExportTargets ==
    LET exports == SelectSeq(cmds, LAMBDA c : c.name = "export")
    IN  [i \in 1..Len(exports) |-> exports[i].org]

\* the positions of the Owner and Admin organizations of a list, in order
OwnerAdminPositions(orgs) ==
    SelectSeq([i \in 1..Len(orgs) |-> i], LAMBDA i : orgs[i] \in {OWNER, ADMIN})

IsPrefix(a, b) == Len(a) <= Len(b) /\ SubSeq(b, 1, Len(a)) = a

\* the delays 0.5 s, 1.0 s, ... after failed attempts 1..n, in tenths of a second
LinearBackoff(n) == [i \in 1..n |-> 5 * i]

ReturnedTrue == cpc = "idle" /\ ret = [kind |-> "return", val |-> "True"]
ReturnedFalse == cpc = "idle" /\ ret = [kind |-> "return", val |-> "False"]
Raised(e) == cpc = "idle" /\ ret = [kind |-> "raise", val |-> e]

BWNames == {"BW_CLIENTID", "BW_CLIENTSECRET", "BW_PASSWORD"}

\* the exceptions of the Session Client's error taxonomy that an
\* authentication can end with
AuthenticationErrors == {"AuthenticationFailed", "InvalidState", "VaultNotUnlocked"}

\* C1 (as claimed): an authentication failure of one account - the construction
\* of its client, the defensive logout or unlockVault ending with
\* AuthenticationFailed, InvalidState or VaultNotUnlocked - never ends the run:
\* backup() catches it and goes on with the next account.
C1_AuthFailureNeverAbortsBatch ==
    ~(/\ opc = "aborted"
      /\ summary[acctIdx].unlock \in {"none", "raised"}
      /\ ret.val \in AuthenticationErrors)

\* C2 (as claimed): every account whose processing has ended - by a prompt
\* failure, an authentication failure, an export failure or a success - had
\* logout() called at the end of its processing.
C2_LogoutOnEveryPath ==
    \A a \in Accounts :
        summary[a].outcome \in {"prompt_failed", "auth_failed", "export_failed", "ok"}
            => summary[a].loggedOut

\* C3 (as claimed): InvalidArguments, MissingEncryptionPassword and
\* InvalidState raised while an account is exported never leave that
\* account's processing: they do not end the run.
C3_ExportErrorsCaughtPerAccount ==
    ~(/\ opc = "aborted"
      /\ summary[acctIdx].unlock \in {"True", "False"}
      /\ ret.val \in {"InvalidArguments", "NoEncryptionPassword", "InvalidState"})

\* C4 (as claimed): when the run is over and the first account failed to unlock
\* (unlockVault returned False or raised), the second account was attempted,
\* nothing was exported for the first, and a second account that succeeded has
\* its export run while only the first is reported as failed.
C4_FirstFailsSecondSucceeds ==
    (/\ \/ opc = "done"
        \/ opc = "aborted" /\ ret.val \in AuthenticationErrors
     /\ summary[1].unlock \in {"False", "raised"})
    => /\ summary[2].outcome # "pending"
       /\ ~summary[1].exported
       /\ summary[1].outcome \in {"auth_failed", "export_failed", "prompt_failed"}
       /\ summary[2].unlock = "True" /\ summary[2].outcome = "ok"
              => summary[2].exported

\* C5: a login method that finds the status locked or unlocked ends at once
\* with InvalidState: no login command is run, the environment is as it was
\* when the method began, and so is the session id.
C5_LoginRequiresUnauthenticated ==
    (call.op \in LoginOps /\ loc.status \in {"locked", "unlocked"})
    => /\ Raised("InvalidState")
       /\ CountLogin = 0
       /\ environ = entry.environ
       /\ session = entry.session

\* C5 witness: loginWithPassword, called while a session id is held, found the
\* vault unlocked and raised InvalidState
C5_Witness ==
    /\ call.op = "loginWithPassword"
    /\ loc.status = "unlocked"
    /\ session # NoSession
    /\ Raised("InvalidState")

\* C6 (as claimed): when the login command exits 0 on attempt k, the login
\* method has run it exactly k times, slept 0.5*i s after failed attempt i,
\* and returns True.
C6_RetryThenSuccessReturnsTrue ==
    (call.op \in LoginOps /\ cpc = "idle" /\ loc.code = "zero" /\ ret.val # "OSError")
    => /\ ReturnedTrue
       /\ CountLogin = loc.number_retries
       /\ sleeps = LinearBackoff(loc.number_retries - 1)

\* every attempt of the login method that just ended has failed
LoginExhausted ==
    /\ call.op \in LoginOps
    /\ cpc = "idle"
    /\ call.retry_count >= 1
    /\ Len(sleeps) = call.retry_count

\* C7 (as claimed): when every attempt fails, the login method has run the
\* login command exactly retry_count times, returns False and the session id
\* is unset.
C7_ExhaustionLeavesSessionUnset ==
    LoginExhausted
    => /\ ReturnedFalse
       /\ CountLogin = call.retry_count
       /\ session = NoSession

\* C7 (amended): a login method never runs the login command more than
\* retry_count times; when every attempt fails it has run it exactly
\* retry_count times, returns False without raising, and the session id is
\* the one held when the method began.
C7_ExhaustionLeavesSessionUnchanged ==
    /\ call.op \in LoginOps => CountLogin <= call.retry_count
    /\ LoginExhausted
       => /\ ReturnedFalse
          /\ CountLogin = call.retry_count
          /\ sleeps = LinearBackoff(call.retry_count)
          /\ session = entry.session

\* C7 witness: loginWithPassword with the largest retry_count failed every
\* attempt while a session id from an earlier unlock was held
C7_Witness ==
    /\ LoginExhausted
    /\ call.op = "loginWithPassword"
    /\ call.retry_count = MaxRetryCount
    /\ session # NoSession
    /\ ReturnedFalse

\* C8 (as claimed): in every state where no loginWithApiKey or unlock call is
\* in progress, none of BW_CLIENTID, BW_CLIENTSECRET and BW_PASSWORD is set.
C8_SecretsScopedToCall ==
    ~(call.op \in {"loginWithApiKey", "unlock"} /\ cpc # "idle")
    => environ \cap BWNames = {}

\* C9: the export commands of exportAll are, in order, a prefix of: the
\* personal vault, then the Owner and Admin organizations in list order; when
\* exportAll returns True they are exactly that sequence.
C9_ExportTargetSelection ==
    call.op = "exportAll"
    => /\ IsPrefix(ExportTargets, <<0>> \o OwnerAdminPositions(loc.orgs))
       /\ ReturnedTrue => ExportTargets = <<0>> \o OwnerAdminPositions(loc.orgs)

\* C9 witness: for the list [Owner, User, Admin] exportAll returned True after
\* exporting the personal vault, the first and the third organization
C9_Witness ==
    /\ call.op = "exportAll"
    /\ ReturnedTrue
    /\ loc.orgs = <<OWNER, USER, ADMIN>>
    /\ ExportTargets = <<0, 1, 3>>

\* C10: an export command of exportAll that exits non-zero is the last command
\* of that exportAll, which returns False; backup() ends a run early only on
\* an exception, and after an account's export failed the loop goes on.
C10_ExportFailureEndsAccountOnly ==
    /\ (call.op = "exportAll" /\ loc.code = "nonzero")
       => /\ ReturnedFalse
          /\ cmds[Len(cmds)].name = "export"
    /\ opc = "aborted" => ret.kind = "raise"
    /\ \A a \in Accounts :
          summary[a].outcome = "export_failed"
             => \/ acctIdx > a
                \/ acctIdx = a /\ opc \in {"loop", "done"}

\* C10 witness: the first account's export failed after an export command was
\* run, and the second account was then backed up
C10_Witness ==
    /\ summary[1].outcome = "export_failed"
    /\ summary[1].exported
    /\ summary[2].outcome = "ok"

\* the function called on its own has ended
Applied(fn) == opc = "function" /\ res.fn = fn

\* a value that is present and not empty
NonEmpty(v) == v # None /\ v # ""

\* C11 (as claimed): the authenticator getAuthenticator returns is the API-key
\* authenticator if and only if client_id and client_secret are both present
\* with a non-empty value, and the password authenticator in every other case.
C11_ApiKeyIffBothNonEmpty ==
    (Applied("getAuthenticator") /\ res.val # None)
    => (res.val = "BitwardenApiKeyAuthenticator"
        <=> (NonEmpty(arg.acct_config.client_id)
             /\ NonEmpty(arg.acct_config.client_secret)))

\* a direct call of one of the two export methods has ended
DirectExportEnded ==
    call.op \in {"exportPersonalVault", "exportCollections"} /\ cpc = "idle"

\* C12 (as claimed): exportPersonalVault and exportCollections called with a
\* format outside {json, csv, encrypted_json} end with InvalidArguments,
\* whether or not a session id is held, and run no export command.
C12_UnsupportedFormatAlwaysRaises ==
    (DirectExportEnded /\ call.format \notin SupportedFormats)
    => /\ Raised("InvalidArguments")
       /\ CountCmd("export") = 0

\* C13 (as claimed): exportPersonalVault and exportCollections called with
\* format encrypted_json and no encryption password end with
\* NoEncryptionPassword and run no export command.
C13_MissingEncryptionPasswordRaises ==
    (DirectExportEnded /\ call.format = "encrypted_json" /\ call.encrypt_password = None)
    => /\ Raised("NoEncryptionPassword")
       /\ CountCmd("export") = 0

\* C14: unlock that finds the status unlocked returns True after the status
\* command alone: no unlock command is run, BW_PASSWORD is not set (the
\* environment is as it was when the call began) and the session id is the
\* one held when the call began; this holds for every call of a sequence.
C14_UnlockIdempotent ==
    (call.op = "unlock" /\ loc.status = "unlocked")
    => /\ ReturnedTrue
       /\ Len(cmds) = 1 /\ cmds[1].name = "status"
       /\ CountCmd("unlock") = 0
       /\ environ = entry.environ
       /\ session = entry.session

\* C14 witness: unlock, called while a session id is held, found the vault
\* unlocked and returned True
C14_Witness ==
    /\ call.op = "unlock"
    /\ loc.status = "unlocked"
    /\ session # NoSession
    /\ ReturnedTrue

\* the serverUrl setter has queried the status: called by itself, or by
\* __init__ after its own status query
SetterQueried ==
    \/ call.op = "serverUrl" /\ Len(cmds) >= 1
    \/ call.op = "init" /\ Len(cmds) >= 2

\* C15: `bw config server` is run only by the serverUrl setter (called by
\* itself or by __init__), directly after a status command that reported
\* unauthenticated; a setter that finds the status locked or unlocked raises
\* InvalidState and runs no config command.
C15_ServerUrlOnlyWhenUnauthenticated ==
    /\ \A i \in 1..Len(cmds) :
          cmds[i].name = "config server"
          => /\ call.op \in {"init", "serverUrl"}
             /\ i > 1
             /\ cmds[i - 1].name = "status"
             /\ loc.status = "unauthenticated"
    /\ (SetterQueried /\ loc.status \in {"locked", "unlocked"})
       => /\ Raised("InvalidState")
          /\ CountCmd("config server") = 0

\* C15 witness: __init__ found another server configured and the status
\* unauthenticated, and ran `bw config server`
C15_Witness ==
    /\ call.op = "init"
    /\ cpc = "idle"
    /\ ret.kind = "return"
    /\ loc.status = "unauthenticated"
    /\ Len(cmds) = 3
    /\ cmds[3].name = "config server"

\* the positions of the lines of `lines` that contain the word export
ExportLines(lines) == {i \in 1..Len(lines) : Contains(lines[i], EXPORT)}

\* the token as the specification takes it from the first export line: the
\* text after '=' without its first and its last character
FirstLineToken(stdout) ==
    LET lines == SplitLines(stdout, <<>>)
        first == CHOOSE i \in ExportLines(lines) : \A j \in ExportLines(lines) : i <= j
        line == lines[first]
    IN  Slice(line, IndexOf(line, "=") + 2, Len(line) - 1)

\* every export line of the output has an '='
WellFormed(stdout) ==
    LET lines == SplitLines(stdout, <<>>)
    IN  \A i \in ExportLines(lines) : IndexOf(lines[i], "=") >= 0

\* C16 (as claimed): the extraction sets the session id to the token of the
\* FIRST line that contains the word export, later such lines being ignored;
\* when no line contains it the session id stays as it was.
C16_TokenFromFirstExportLine ==
    (Applied("extractSessionFromStdOut") /\ WellFormed(arg.stdout))
    => /\ res.val.raised = None
       /\ res.val.session =
              IF ExportLines(SplitLines(arg.stdout, <<>>)) = {}
              THEN arg.sess
              ELSE Some(FirstLineToken(arg.stdout))

\* the methods that query the status before anything else
StatusFirstOps ==
    {"init", "serverUrl", "loginWithPassword", "loginWithApiKey", "unlock", "exportAll"}

\* C17 (as claimed): a status command that exits non-zero is an ordinary
\* failure: the method that ran it ends with a value, it raises nothing.
C17_StatusFailureNotRaised ==
    ~(/\ call.op \in StatusFirstOps
      /\ cpc = "idle"
      /\ cmds # <<>>
      /\ cmds[Len(cmds)].name = "status"
      /\ Raised("TypeError"))

\* the extension the specification gives a format
ClaimedExtension(format) == IF format = "encrypted_json" THEN "json" ELSE format

\* C18 (as claimed): every export command of exportAll writes to
\* <email>-<time>.<ext> (personal vault) or <email>-<org>-<time>.<ext>
\* (organization), where <ext> is json for json, csv for csv and json for
\* encrypted_json.
C18_ExportFileNaming ==
    call.op = "exportAll"
    => \A i \in 1..Len(cmds) :
          cmds[i].name = "export"
          => cmds[i].path = [email |-> loc.userEmail, org |-> cmds[i].org,
                             timeStr |-> loc.timeStr,
                             ext |-> ClaimedExtension(call.format)]

\* C19: all export commands of one exportAll carry the same timestamp in
\* their file names, the one taken before the personal export, however many
\* minutes pass between the commands.
C19_TimestampCapturedOnce ==
    call.op = "exportAll"
    => \A i \in 1..Len(cmds) :
          cmds[i].name = "export" => cmds[i].path.timeStr = loc.timeStr

\* C19 witness: exportAll returned True after the personal export and two
\* organization exports, the last of them run at a later minute than the
\* personal export; the three file names carry the minute of the first
C19_Witness ==
    /\ call.op = "exportAll"
    /\ ReturnedTrue
    /\ Len(ExportTargets) = 3
    /\ now > loc.timeStr
    /\ \A i \in 1..Len(cmds) :
          cmds[i].name = "export" => cmds[i].path.timeStr = loc.timeStr

\* C20 (as claimed): when a login attempt of loginWithPassword exits 0,
\* whatever its output, the method runs exactly one sync command and returns
\* True.
C20_LoginSuccessSyncsAndReturnsTrue ==
    (call.op = "loginWithPassword" /\ cpc = "idle" /\ loc.code = "zero"
        /\ ret.val # "OSError")
    => /\ ReturnedTrue
       /\ CountCmd("sync") = 1

\* C21: the API-key authenticator calls loginWithApiKey first; when that
\* returns False it raises AuthenticationFailed and unlock is not called; when
\* it returns True it calls unlock once and unlockVault ends as unlock ends.
\* The password authenticator calls loginWithPassword and nothing else, and
\* backup() gets that method's result.
C21_AuthenticatorCallSequence ==
    [][/\ (opc = "logout" /\ opc' = "unlockVault")
          => (auth = "BitwardenPasswordAuthenticator" /\ call'.op = "loginWithPassword")
       /\ (opc = "logout" /\ opc' = "apiLogin")
          => (auth = "BitwardenApiKeyAuthenticator" /\ call'.op = "loginWithApiKey")
       /\ (opc = "apiLogin" /\ opc' = "unlockVault")
          => /\ call.op = "loginWithApiKey"
             /\ IF ret = [kind |-> "return", val |-> "False"]
                THEN /\ ret' = [kind |-> "raise", val |-> "AuthenticationFailed"]
                     /\ call' = call /\ cmds' = cmds /\ cpc' = "idle"
                ELSE IF ret = [kind |-> "return", val |-> "True"]
                THEN call'.op = "unlock" /\ cpc' = "unlock" /\ cmds' = <<>>
                ELSE ret.kind = "raise" /\ ret' = ret /\ call' = call /\ cmds' = cmds
       /\ (opc = "unlockVault" /\ auth = "BitwardenPasswordAuthenticator")
          => call.op = "loginWithPassword"
       /\ (opc = "unlockVault" /\ call.op = "unlock")
          => CountCmd("unlock") <= 1
       /\ (opc = "unlockVault" /\ opc' = "exportAll")
          => /\ ret.kind = "return"
             /\ summary'[acctIdx].unlock = ret.val
             /\ call.op = IF auth = "BitwardenApiKeyAuthenticator"
                          THEN "unlock" ELSE "loginWithPassword"
      ]_vars

\* C21 witness: for an API-key account loginWithApiKey returned True, unlock
\* was called, ran the unlock command once and returned False
C21_Witness ==
    /\ opc = "unlockVault"
    /\ auth = "BitwardenApiKeyAuthenticator"
    /\ call.op = "unlock"
    /\ CountCmd("unlock") = 1
    /\ ReturnedFalse

\* a login, unlock, sync, list or export command is among the commands of
\* the method that is running or has just ended
SessionWork ==
    \E i \in 1..Len(cmds) :
        cmds[i].name \in {"login", "login --apikey", "unlock", "sync",
                          "list organizations", "export"}

\* C22: accounts are processed one at a time in order: the accounts before
\* the current one are finished, those after it are not begun, and a login,
\* unlock or export command is run for the current account only after its
\* defensive logout has run the logout command and returned.
C22_SequentialAccounts ==
    /\ \A a \in Accounts :
          /\ a < acctIdx => summary[a].outcome \notin {"pending", "running"}
          /\ a > acctIdx => summary[a] = NoSummary
          /\ a = acctIdx /\ opc \notin {"loop", "done", "aborted"}
             => summary[a].outcome = "running"
    /\ opc \in {"unlockVault", "apiLogin", "exportAll", "logout2"}
       => summary[acctIdx].loggedOutFirst
    /\ SessionWork => opc \in {"unlockVault", "apiLogin", "exportAll"}

\* C22 witness: the first account was left after a failed export, without a
\* closing logout; the second has run its defensive logout and then a login
C22_Witness ==
    /\ acctIdx = 2
    /\ summary[1].outcome = "export_failed"
    /\ summary[1].exported
    /\ summary[2].loggedOutFirst
    /\ opc \in {"unlockVault", "apiLogin"}
    /\ CountLogin >= 1

\* C23 (as claimed): unlock that finds the status unauthenticated raises
\* InvalidState: no unlock command, the environment and the session id as
\* they were; unlock that finds the status locked runs the unlock command
\* once and returns True exactly when the command exits 0.
C23_UnlockPreconditionAndSingleAttempt ==
    /\ (call.op = "unlock" /\ loc.status = "unauthenticated")
       => /\ Raised("InvalidState")
          /\ CountCmd("unlock") = 0
          /\ environ = entry.environ
          /\ session = entry.session
    /\ (call.op = "unlock" /\ loc.status = "locked")
       => /\ CountCmd("unlock") <= 1
          /\ cpc = "idle"
             => /\ CountCmd("unlock") = 1
                /\ loc.code = "nonzero" => ReturnedFalse /\ session = entry.session
                /\ loc.code = "zero" => ReturnedTrue
                /\ ReturnedTrue => loc.code = "zero"

\* the commands that take --session <id>
SessionCommands ==
    {"sync", "list items", "list organizations", "list collections", "export"}

\* C24: a command that takes --session is run only with the session id the
\* client holds; called without one, sync raises VaultNotUnlocked, the export
\* methods return False, and no command at all is run.
C24_SessionTokenGuard ==
    /\ \A i \in 1..Len(cmds) :
          cmds[i].name \in SessionCommands
          => cmds[i].session # NoSession /\ cmds[i].session = session
    /\ (call.op \in {"sync"} \cup ExportOps /\ cpc = "idle" /\ entry.session = NoSession)
       => /\ cmds = <<>>
          /\ IF call.op = "sync" THEN Raised("VaultNotUnlocked") ELSE ReturnedFalse

\* C24 witness: exportAll called without a session id returned False without
\* running a command
C24_Witness ==
    /\ call.op = "exportAll"
    /\ entry.session = NoSession
    /\ cmds = <<>>
    /\ ReturnedFalse

\* C25: after logout() has run the logout command the session id is unset,
\* whatever the exit code; a client without a session id gets one only from a
\* loginWithPassword or unlock whose command exits 0, until then sync raises
\* VaultNotUnlocked and the export methods return False; loginWithApiKey
\* leaves the session id as it was.
C25_LogoutClearsToken ==
    /\ (call.op = "logout" /\ cpc = "idle" /\ ret.kind = "return")
       => /\ session = NoSession
          /\ CountCmd("logout") = 1
    /\ (entry.session = NoSession /\ session # NoSession)
       => /\ call.op \in {"loginWithPassword", "unlock"}
          /\ loc.code = "zero"
    /\ (entry.session = NoSession /\ cpc = "idle" /\ call.op = "sync")
       => Raised("VaultNotUnlocked")
    /\ (entry.session = NoSession /\ cpc = "idle" /\ call.op \in ExportOps)
       => ReturnedFalse
    /\ call.op = "loginWithApiKey" => session = entry.session

\* C25 witness: logout was called while a session id was held, the logout
\* command exited non-zero, and the session id is unset
C25_Witness ==
    /\ call.op = "logout"
    /\ cpc = "idle"
    /\ entry.session # NoSession
    /\ loc.code = "nonzero"
    /\ session = NoSession

\* C26 (as claimed): whenever unlockVault returns True, for either
\* authenticator, the client holds a session id.
C26_UnlockedImpliesToken ==
    (opc = "unlockVault" /\ ReturnedTrue) => session # NoSession

\* C27 (as claimed): exportAll returns True only if `bw list organizations`
\* succeeded and the personal vault and every Owner and Admin organization
\* were exported.
C27_SuccessMeansAllExported ==
    (call.op = "exportAll" /\ ReturnedTrue)
    => /\ loc.orgsCode = "zero"
       /\ ExportTargets = <<0>> \o OwnerAdminPositions(loc.orgs)

\* C28 (as claimed): every export command backup() causes with the format
\* encrypted_json carries --password, whatever the prompt returned.
C28_EncryptedExportCarriesPassword ==
    opc = "exportAll"
    => \A i \in 1..Len(cmds) :
          (cmds[i].name = "export" /\ cmds[i].format = "encrypted_json")
          => cmds[i].password # None

====
